---- MODULE Spec2Model ----
(***************************************************************************)
(* Model of cktimg.py, the Composite Kernel Table (.kis) image codec.      *)
(*                                                                         *)
(* Byte strings, bit strings and lists are sequences.  Python offsets are  *)
(* 0-based, sequences are 1-based: Python's s[i] is s[i + 1] here.  A bit  *)
(* character '0' / '1' of a Python bit string is the number 0 / 1.  A      *)
(* pixel is a triple <<r, g, b>>; an image is [w, h, px] with px the       *)
(* pixels in raster order, so PIL's pixels[x, y] is px[y * w + x + 1].     *)
(***************************************************************************)
EXTENDS Integers, Sequences, FiniteSets

(***************************************************************************)
(* Bounds of the model.                                                    *)
(***************************************************************************)
MaxWidth == 2
MaxHeight == 2
MaxCalls == 2
MaxDelta == 2
MaxRemapDim == 4

(***************************************************************************)
(* Python list / bytes / str primitives.                                   *)
(***************************************************************************)
Reverse(s) == [i \in 1..Len(s) |-> s[Len(s) + 1 - i]]

Zeros(n) == [i \in 1..n |-> 0]

\* s[n:] for n >= 0
DropFirst(s, n) == IF n >= Len(s) THEN <<>> ELSE SubSeq(s, n + 1, Len(s))

\* s[:-n] for n >= 0; Python reads s[:-0] as s[:0], the empty slice
DropLast(s, n) == IF n = 0 \/ n >= Len(s) THEN <<>> ELSE SubSeq(s, 1, Len(s) - n)

\* s[i : i + n] for 0 <= i <= len(s)
Slice(s, i, n) == SubSeq(s, i + 1, IF i + n > Len(s) THEN Len(s) ELSE i + n)

\* [s[i : i + n] for i in range(0, len(s) - n + 1, n)], n > 0
Chunks(s, n) == [j \in 1..(Len(s) \div n) |-> SubSeq(s, (j - 1) * n + 1, j * n)]

RECURSIVE Flatten(_)
\* ''.join(parts), and the loops that append every part to one string
Flatten(ss) == IF ss = <<>> THEN <<>> ELSE Head(ss) \o Flatten(Tail(ss))

RECURSIVE Bin(_)
\* bin(n)[2:] : the binary digits of n, most significant first, no leading zero
Bin(n) == IF n < 2 THEN <<n>> ELSE Append(Bin(n \div 2), n % 2)

\* '0' * (width - len(bits)) + bits ; a negative repeat count gives ''
PadBits(bits, width) ==
    IF Len(bits) >= width THEN bits ELSE Zeros(width - Len(bits)) \o bits

RECURSIVE IntBase2(_)
\* int(bits, 2) for a bit string short enough for a machine integer
IntBase2(bits) ==
    IF bits = <<>> THEN 0
    ELSE 2 * IntBase2(SubSeq(bits, 1, Len(bits) - 1)) + bits[Len(bits)]

\* n.to_bytes(len, "little")
ToBytesLittle(n, len) == [i \in 1..len |-> (n \div (256 ^ (i - 1))) % 256]

\* n.to_bytes(len, "big")
ToBytesBig(n, len) == Reverse(ToBytesLittle(n, len))

(***************************************************************************)
(* int(kernel_stream, 2).to_bytes(len(kernel_stream) // 8, "little").      *)
(* The integer has 24 * w * h bits and does not fit a machine integer, so  *)
(* it is held as its base-256 digits, least significant digit first: the   *)
(* j-th digit is the value of the j-th group of eight bits counted from    *)
(* the end of the bit string.  to_bytes(..., "little") writes exactly      *)
(* these digits in this order.                                             *)
(***************************************************************************)
StreamToBytesLittle(stream) ==
    LET n == Len(stream) \div 8
    IN  [j \in 1..n |->
            IntBase2(SubSeq(stream, Len(stream) - 8 * j + 1, Len(stream) - 8 * (j - 1)))]

(***************************************************************************)
(* Module-level header templates (mutable lists in the program).           *)
(***************************************************************************)
BITMAP_HEADER_INIT ==
    <<  66,  77, 255, 255,
         0,   0,   0,   0,
         0,   0, 122,   0,
         0,   0, 108,   0,
         0,   0, 255, 255,
         0,   0, 255, 255,
         0,   0,   1,   0,
        24,   0,   0,   0,
         0,   0, 255, 255,
       255, 255, 195,  14,
         0,   0, 195,  14,
         0,   0,   0,   0,
         0,   0,   0,   0,
         0,   0,  66,  71,
        82, 115,   0,   0,
         0,   0,   0,   0,
         0,   0,   0,   0,
         0,   0,   0,   0,
         0,   0,   0,   0,
         0,   0,   0,   0,
         0,   0,   0,   0,
         0,   0,   0,   0,
         0,   0,   0,   0,
         0,   0,   0,   0,
         0,   0,   0,   0,
         0,   0,   0,   0,
         0,   0,   2,   0,
         0,   0,   0,   0,
         0,   0,   0,   0,
         0,   0,   0,   0,
         0,   0 >>

CKT_HEADER_INIT == << 67, 75, 84, 255, 255, 255, 255 >>

\* BITMAP_HEADER[off] = v
Patch(hdr, off, v) == [hdr EXCEPT ![off + 1] = v]

(***************************************************************************)
(* rgb_to_index and the pixel scan of encode.                              *)
(***************************************************************************)
rgb_to_index(c) == 65536 * c[1] + 256 * c[2] + c[3]

\* pixels[x, y] of an image
PixelAt(img, x, y) == img.px[y * img.w + x + 1]

\* for x in range(img_width): for y in range(img_height): rgb_indices.append(...)
RgbIndices(img) ==
    [k \in 1..(img.w * img.h) |->
        rgb_to_index(PixelAt(img, (k - 1) \div img.h, (k - 1) % img.h))]

\* bits = bin(i)[2:] ; bits = '0' * (24 - len(bits)) + bits
SplitRgbIndices(rgb_indices) ==
    [k \in 1..Len(rgb_indices) |-> PadBits(Bin(rgb_indices[k]), 24)]

(***************************************************************************)
(* The kernel (bit-plane) loop of encode.  A loop state is                 *)
(* [kernel, kernels, sub_i, scans]; scans counts the completed passes of   *)
(* the for loop.                                                           *)
(***************************************************************************)
KernelLoopInit == [kernel |-> <<>>, kernels |-> <<>>, sub_i |-> 0, scans |-> 0]

\* KernelBody reading the digits least significant first
KernelBody_Mut(st, split_rgb_index, n) ==
    LET kernel == Append(st.kernel, split_rgb_index[24 - st.sub_i])
    IN  IF Len(kernel) = n
        THEN [st EXCEPT !.kernel = <<>>,
                        !.kernels = Append(st.kernels, kernel),
                        !.sub_i = st.sub_i + 1]
        ELSE [st EXCEPT !.kernel = kernel]

\* the body of `for split_rgb_index in split_rgb_indices`
KernelBody(st, split_rgb_index, n) ==
    LET kernel == Append(st.kernel, split_rgb_index[st.sub_i + 1])
    IN  IF Len(kernel) = n
        THEN [st EXCEPT !.kernel = <<>>,
                        !.kernels = Append(st.kernels, kernel),
                        !.sub_i = st.sub_i + 1]
        ELSE [st EXCEPT !.kernel = kernel]

RECURSIVE KernelScan(_, _, _)
\* one pass of the for loop, from list position pos (0-based) to the end
KernelScan(st, splits, pos) ==
    IF pos >= Len(splits) THEN [st EXCEPT !.scans = st.scans + 1]
    ELSE KernelScan(KernelBody(st, splits[pos + 1], Len(splits)), splits, pos + 1)

RECURSIVE KernelLoop(_, _)
\* while len(kernels) < 24: <scan>
KernelLoop(st, splits) ==
    IF Len(st.kernels) < 24 THEN KernelLoop(KernelScan(st, splits, 0), splits) ELSE st

BuildKernels(splits) == KernelLoop(KernelLoopInit, splits)

\* numeric_kernels joined into kernel_stream, then packed into kernel_bytes
KernelBytes(img) ==
    StreamToBytesLittle(Flatten(BuildKernels(SplitRgbIndices(RgbIndices(img))).kernels))

(***************************************************************************)
(* Input images.  Palette holds twelve distinct colours; TestImage(w,h,s)  *)
(* gives every pixel of the image a different colour, so that any          *)
(* misplaced pixel and any misplaced bit shows.                            *)
(***************************************************************************)
Palette ==
    << <<18, 52, 86>>,   <<255, 128, 1>>,  <<0, 0, 0>>,      <<171, 205, 239>>,
       <<1, 2, 3>>,      <<128, 0, 255>>,  <<255, 255, 255>>, <<0, 128, 1>>,
       <<254, 1, 127>>,  <<7, 77, 177>>,   <<64, 32, 16>>,   <<200, 100, 50>> >>

Shifts == {0, 5}

TestImage(w, h, s) ==
    [w |-> w, h |-> h, mode |-> "RGB",
     px |-> [p \in 1..(w * h) |-> Palette[((p - 1 + s) % Len(Palette)) + 1]]]

BlackImage(w, h) ==
    [w |-> w, h |-> h, mode |-> "RGB", px |-> [p \in 1..(w * h) |-> <<0, 0, 0>>]]

\* an indexed-colour image: pixels[x, y] is a palette index, not a tuple
\* (held as <<index>>; encode never reads it, it fails on the first pixel)
IndexedImage(w, h) ==
    [w |-> w, h |-> h, mode |-> "P", px |-> [p \in 1..(w * h) |-> <<p - 1>>]]

RgbImages ==
    UNION {{TestImage(w, h, s) : s \in Shifts} \cup {BlackImage(w, h)} :
              w \in 1..MaxWidth, h \in 1..MaxHeight}

(***************************************************************************)
(* encode(in_path, out_path, bitmap_arg), from the loaded image on.        *)
(* bmp and ckt are BITMAP_HEADER and CKT_HEADER as the call finds them.    *)
(* The result is [ret, written, bytes, bmp, ckt]: the return value ("None" *)
(* or "1"), whether the output file was written, its bytes, and the two    *)
(* lists as the call leaves them.  File names are not modelled: the file   *)
(* encode writes and decode reads is the variable disk.                    *)
(***************************************************************************)
\* EncodeBitmap without `BITMAP_HEADER.reverse()`
EncodeBitmap_Mut(img, kernel_bytes, bmp) ==
    LET hex_width == ToBytesLittle(img.w, 2)
        hex_height == ToBytesLittle(img.h, 2)
        hex_size == ToBytesLittle(Len(kernel_bytes) + Len(bmp), 4)
        patched == Patch(Patch(Patch(Patch(Patch(Patch(Patch(Patch(bmp,
                       18, hex_width[1]), 19, hex_width[2]),
                       22, hex_height[1]), 23, hex_height[2]),
                       34, hex_size[1]), 35, hex_size[2]),
                       36, hex_size[3]), 37, hex_size[4])
    IN  [bytes |-> Reverse(Reverse(kernel_bytes) \o patched) \o Zeros(img.h),
         bmp |-> patched]

EncodeBitmap(img, kernel_bytes, bmp) ==
    LET hex_width == ToBytesLittle(img.w, 2)
        hex_height == ToBytesLittle(img.h, 2)
        image_length == Len(kernel_bytes) + Len(bmp)
        hex_size == ToBytesLittle(image_length, 4)
        additional_bytes == Zeros(img.h)
        patched == Patch(Patch(Patch(Patch(Patch(Patch(Patch(Patch(bmp,
                       18, hex_width[1]), 19, hex_width[2]),
                       22, hex_height[1]), 23, hex_height[2]),
                       34, hex_size[1]), 35, hex_size[2]),
                       36, hex_size[3]), 37, hex_size[4])
        reversed_header == Reverse(patched)
    IN  [bytes |-> Reverse(Reverse(kernel_bytes) \o reversed_header) \o additional_bytes,
         bmp |-> reversed_header]

EncodeMinimal(img, kernel_bytes, ckt) ==
    LET hex_width == ToBytesLittle(img.w, 2)
        hex_height == ToBytesLittle(img.h, 2)
        patched == Patch(Patch(Patch(Patch(ckt,
                       3, hex_width[1]), 4, hex_width[2]),
                       5, hex_height[1]), 6, hex_height[2])
        reversed_header == Reverse(patched)
    IN  [bytes |-> Reverse(Reverse(kernel_bytes) \o reversed_header),
         ckt |-> reversed_header]

encode(img, bitmap_arg, bmp, ckt) ==
    IF img.mode # "RGB"
    THEN \* rgb_to_index raises TypeError on the first pixel: return 1
         [ret |-> "1", written |-> FALSE, bytes |-> <<>>, bmp |-> bmp, ckt |-> ckt]
    ELSE LET kernel_bytes == KernelBytes(img)
         IN  IF bitmap_arg
             THEN LET r == EncodeBitmap(img, kernel_bytes, bmp)
                  IN  [ret |-> "None", written |-> TRUE, bytes |-> r.bytes,
                       bmp |-> r.bmp, ckt |-> ckt]
             ELSE LET r == EncodeMinimal(img, kernel_bytes, ckt)
                  IN  [ret |-> "None", written |-> TRUE, bytes |-> r.bytes,
                       bmp |-> bmp, ckt |-> r.ckt]

(***************************************************************************)
(* decode(infile, outfile, reverse_arg).  infile is the content of the     *)
(* input file, answer the line input() returns if decode asks (a sequence  *)
(* of characters), bmp_len and ckt_len are len(BITMAP_HEADER) and          *)
(* len(CKT_HEADER).  The result is a DecodeResult: status is "ok",         *)
(* "aborted" (return 1) or the name of the exception that escapes; image   *)
(* is the image saved, NoImage if none was.                                *)
(***************************************************************************)
Lower(c) == CASE c = "Y" -> "y" [] c = "N" -> "n" [] OTHER -> c

\* AttemptPadding taking an empty answer for a yes
AttemptPadding_Mut(answer) == IF answer = <<>> THEN "y" ELSE Lower(answer[1])

\* attempt_padding after `.lower()` and the empty-input handling
AttemptPadding(answer) == IF answer = <<>> THEN "n" ELSE Lower(answer[1])

\* lst[idx] as Python resolves the index: -1 is the last element;
\* the result is a 0-based position, or -1 for an IndexError
PyIndex(idx, len) ==
    IF idx >= 0 /\ idx < len THEN idx
    ELSE IF idx < 0 /\ idx >= -len THEN idx + len
    ELSE -1

\* NewIndex dividing by the width instead of the height
NewIndex_Mut(i, img_width, img_height, n) ==
    ((img_width * (i + 1) - (img_width - 1)) % n) + (i \div img_width)

\* new_index = ((img_width * (i + 1) - (img_width - 1)) % len(rgb)) + (i // img_height)
NewIndex(i, img_width, img_height, n) ==
    ((img_width * (i + 1) - (img_width - 1)) % n) + (i \div img_height)

\* the position that `reordered_rgb[new_index - 1] = rgb[i]` writes
WritePos(i, img_width, img_height, n) ==
    PyIndex(NewIndex(i, img_width, img_height, n) - 1, n)

\* reordered_rgb[new_index - 1] = rgb[i]
ReorderBody(reordered_rgb, rgb, i, img_width, img_height) ==
    [reordered_rgb EXCEPT ![WritePos(i, img_width, img_height, Len(rgb)) + 1] = rgb[i + 1]]

RECURSIVE ReorderLoop(_, _, _, _, _)
\* for i in range(len(rgb)): ...   ; the result is [err, lst], err TRUE when a
\* write is out of range (IndexError)
ReorderLoop(reordered_rgb, rgb, i, img_width, img_height) ==
    IF i >= Len(rgb) THEN [err |-> FALSE, lst |-> reordered_rgb]
    ELSE IF WritePos(i, img_width, img_height, Len(rgb)) = -1
    THEN [err |-> TRUE, lst |-> reordered_rgb]
    ELSE ReorderLoop(ReorderBody(reordered_rgb, rgb, i, img_width, img_height),
                     rgb, i + 1, img_width, img_height)

\* reordered_rgb = [()] * len(rgb), then the loop
Reorder(rgb, img_width, img_height) ==
    ReorderLoop([i \in 1..Len(rgb) |-> <<>>], rgb, 0, img_width, img_height)

\* KernelsJoinedBits with the sense of reverse_arg inverted
KernelsJoinedBits_Mut(payload, reverse_arg) ==
    LET kernels_bits == [i \in 1..Len(payload) |-> PadBits(Bin(payload[i]), 8)]
    IN  Flatten(IF reverse_arg THEN Reverse(kernels_bits) ELSE kernels_bits)

\* bytes -> 8-bit strings, optionally reversed, joined
KernelsJoinedBits(payload, reverse_arg) ==
    LET kernels_bits == [i \in 1..Len(payload) |-> PadBits(Bin(payload[i]), 8)]
    IN  Flatten(IF reverse_arg THEN kernels_bits ELSE Reverse(kernels_bits))

\* for i in range(len(kernels_bits[0])): for bs in kernels_bits: rgb_binary += bs[i]
RgbBinary(kernels_bits) ==
    LET k == Len(kernels_bits)
        n == Len(kernels_bits[1])
    IN  [q \in 1..(n * k) |-> kernels_bits[((q - 1) % k) + 1][((q - 1) \div k) + 1]]

\* the inverse transform: payload bytes -> rgb tuples in column-major order
RgbFromPayload(payload, sublist_length, reverse_arg) ==
    LET kernels_bits == Chunks(KernelsJoinedBits(payload, reverse_arg), sublist_length)
        rgb_split_binary == Chunks(RgbBinary(kernels_bits), 24)
    IN  [i \in 1..Len(rgb_split_binary) |-> ToBytesBig(IntBase2(rgb_split_binary[i]), 3)]

NoImage == [w |-> 0, h |-> 0, px |-> <<>>]

DecodeResult(status, ret, asked, w, h, stripped, payload, image) ==
    [status |-> status, ret |-> ret, asked |-> asked, w |-> w, h |-> h,
     stripped |-> stripped, payload |-> payload, image |-> image]

\* Recover padding at the front and cutting from the front
Recover_Mut(stripped, expected, answer) ==
    IF Len(stripped) = expected THEN [ok |-> TRUE, asked |-> FALSE, payload |-> stripped]
    ELSE IF AttemptPadding(answer) = "y"
    THEN LET excess_bytes == Len(stripped) - expected
         IN  [ok |-> TRUE, asked |-> TRUE,
              payload |-> IF excess_bytes < 1
                          THEN Zeros(-excess_bytes) \o stripped
                          ELSE DropFirst(stripped, excess_bytes)]
    ELSE [ok |-> FALSE, asked |-> TRUE, payload |-> stripped]

\* the size check and the truncate/pad recovery; ok is FALSE when decode aborts
Recover(stripped, expected, answer) ==
    IF Len(stripped) = expected THEN [ok |-> TRUE, asked |-> FALSE, payload |-> stripped]
    ELSE IF AttemptPadding(answer) = "y"
    THEN LET excess_bytes == Len(stripped) - expected
         IN  [ok |-> TRUE, asked |-> TRUE,
              payload |-> IF excess_bytes < 1
                          THEN stripped \o Zeros(-excess_bytes)
                          ELSE DropLast(stripped, excess_bytes)]
    ELSE [ok |-> FALSE, asked |-> TRUE, payload |-> stripped]

\* decode after the header has been read and stripped
DecodeBody(img_width, img_height, stripped, reverse_arg, answer) ==
    LET r == Recover(stripped, img_width * img_height * 3, answer)
        n == img_width * img_height
    IN  IF ~r.ok
        THEN DecodeResult("aborted", "1", TRUE, img_width, img_height, stripped,
                          r.payload, NoImage)
        ELSE IF n = 0
        THEN \* range(0, ..., 0) raises ValueError
             DecodeResult("ValueError", "None", r.asked, img_width, img_height, stripped,
                          r.payload, NoImage)
        ELSE LET reordered_rgb ==
                     Reorder(RgbFromPayload(r.payload, n, reverse_arg), img_width, img_height)
             IN  IF reordered_rgb.err
                 THEN DecodeResult("IndexError", "None", r.asked, img_width, img_height,
                                   stripped, r.payload, NoImage)
                 ELSE DecodeResult("ok", "None", r.asked, img_width, img_height, stripped,
                                   r.payload,
                                   [w |-> img_width, h |-> img_height,
                                    px |-> reordered_rgb.lst])

\* infile[0:2].decode(errors="ignore") == "BM"
IsBitmap(infile) == Slice(infile, 0, 2) = <<66, 77>>

\* framing detection, width and height, header (and trailer) removal:
\* [err, w, h, stripped]; err is TRUE when a header byte is missing (IndexError)
ParseHeader(infile, bmp_len, ckt_len) ==
    IF IsBitmap(infile)
    THEN IF Len(infile) < 24
         THEN [err |-> TRUE, w |-> 0, h |-> 0, stripped |-> <<>>]
         ELSE LET img_width == infile[19] + 256 * infile[20]
                  img_height == infile[23] + 256 * infile[24]
              IN  [err |-> FALSE, w |-> img_width, h |-> img_height,
                   stripped |-> DropLast(DropFirst(infile, bmp_len), img_height)]
    ELSE IF Len(infile) < 7
         THEN [err |-> TRUE, w |-> 0, h |-> 0, stripped |-> <<>>]
         ELSE [err |-> FALSE, w |-> infile[4] + 256 * infile[5],
               h |-> infile[6] + 256 * infile[7],
               stripped |-> DropFirst(infile, ckt_len)]

\* decode refusing a file that starts with neither 'BM' nor 'CKT'
decode_Mut(infile, reverse_arg, answer, bmp_len, ckt_len) ==
    LET hd == ParseHeader(infile, bmp_len, ckt_len)
    IN  IF ~IsBitmap(infile) /\ Slice(infile, 0, 3) # <<67, 75, 84>>
        THEN DecodeResult("UnknownContainer", "1", FALSE, 0, 0, <<>>, <<>>, NoImage)
        ELSE IF hd.err
        THEN DecodeResult("IndexError", "None", FALSE, 0, 0, <<>>, <<>>, NoImage)
        ELSE DecodeBody(hd.w, hd.h, hd.stripped, reverse_arg, answer)

decode(infile, reverse_arg, answer, bmp_len, ckt_len) ==
    LET hd == ParseHeader(infile, bmp_len, ckt_len)
    IN  IF hd.err
        THEN DecodeResult("IndexError", "None", FALSE, 0, 0, <<>>, <<>>, NoImage)
        ELSE DecodeBody(hd.w, hd.h, hd.stripped, reverse_arg, answer)

(***************************************************************************)
(* validate_arguments(args).  args is sys.argv; isfile is the set of paths *)
(* for which os.path.isfile holds.  "False" stands for `error = False`.    *)
(***************************************************************************)
validate_arguments(args, isfile) ==
    IF Len(args) # 5 THEN "Wrong number of arguments"
    ELSE IF args[5] \notin {"true", "false"} THEN "Final argument must be 'true' or 'false'"
    ELSE IF args[3] \notin isfile THEN "Given input file does not exist"
    ELSE IF args[2] \notin {"encode", "decode"} THEN "Invalid option. Use 'encode' or 'decode'"
    ELSE "False"

\* ['false', 'true'].index(args[4].lower()), for an argument that passed validation
BitmapOrReverseArg(arg) == arg = "true"

(***************************************************************************)
(* State.                                                                  *)
(*   BITMAP_HEADER, CKT_HEADER  the module-level lists                     *)
(*   ncalls   number of encode calls made in this process                  *)
(*   disk     content of the .kis file (<<>>: no file)                     *)
(*   enc      the last encode call: its inputs and result                  *)
(*   dec      the last decode call: its inputs and result                  *)
(*   proc     the process: running, or exited with a status                *)
(*   loop     the kernel loop of encode, step by step                      *)
(*   remap    the reorder loop of decode, step by step                     *)
(***************************************************************************)
VARIABLES BITMAP_HEADER, CKT_HEADER, ncalls, disk, enc, dec, proc, loop, remap

vars == <<BITMAP_HEADER, CKT_HEADER, ncalls, disk, enc, dec, proc, loop, remap>>

NoEnc ==
    [called |-> FALSE, first |-> FALSE, bitmap_arg |-> FALSE, ret |-> "None",
     written |-> FALSE, img |-> [w |-> 0, h |-> 0, mode |-> "RGB", px |-> <<>>]]

NoDec ==
    [called |-> FALSE, reverse_arg |-> FALSE, answer |-> <<>>,
     res |-> DecodeResult("none", "None", FALSE, 0, 0, <<>>, <<>>, NoImage)]

ProcRunning ==
    [status |-> "running", exit_status |-> 0, args |-> <<>>, error |-> "False",
     main_ret |-> "None", fn_ret |-> "None", usage_ok |-> TRUE]

LoopIdle == [pc |-> "idle", rgb_indices |-> <<>>, splits |-> <<>>, pos |-> 0,
             st |-> KernelLoopInit]

RemapIdle == [pc |-> "idle", w |-> 0, h |-> 0, i |-> 0, rgb |-> <<>>,
              reordered_rgb |-> <<>>, log |-> <<>>]

(***************************************************************************)
(* Inputs.  EncodeImages are the RGB images encode is called on: for every *)
(* size one image whose pixels all differ, and the 2 x 2 all-black image;  *)
(* ScriptImages adds an indexed-colour image, which encode refuses.        *)
(* InitialFiles are the .kis files a command                               *)
(* line run can find on disk: none, or a file an earlier run wrote,        *)
(* possibly edited since by another tool (a few bytes cut from or added to *)
(* its end, its first three bytes overwritten).                            *)
(***************************************************************************)
EncodeImages ==
    {TestImage(w, h, 0) : w \in 1..MaxWidth, h \in 1..MaxHeight}
        \cup {BlackImage(2, 2)}

ScriptImages == EncodeImages \cup {IndexedImage(1, 1)}

EditLength(file, d) ==
    IF d < 0 THEN SubSeq(file, 1, Len(file) + d)
    ELSE file \o [i \in 1..d |-> 170]

ReplaceMagic(file) == <<88, 89, 90>> \o DropFirst(file, 3)

FreshFile(img, bitmap_arg) ==
    encode(img, bitmap_arg, BITMAP_HEADER_INIT, CKT_HEADER_INIT).bytes

InitialFiles ==
    {<<>>} \cup
    UNION {{EditLength(FreshFile(TestImage(w, h, s), b), d),
            ReplaceMagic(EditLength(FreshFile(TestImage(w, h, s), b), d))} :
              w \in 1..MaxWidth, h \in 1..MaxHeight, s \in Shifts, b \in BOOLEAN,
              d \in (-MaxDelta)..MaxDelta}

Answers == {<<>>, <<"y">>, <<"Y", "e", "s">>, <<"n">>, <<" ", "y">>}

\* the answers input() can return in a decode of infile: decode reads one
\* only when the size check fails
AnswersFor(infile, bmp_len, ckt_len) ==
    LET hd == ParseHeader(infile, bmp_len, ckt_len)
    IN  IF ~hd.err /\ Len(hd.stripped) # hd.w * hd.h * 3 THEN Answers ELSE {<<>>}

InitProcess ==
    /\ BITMAP_HEADER = BITMAP_HEADER_INIT
    /\ CKT_HEADER = CKT_HEADER_INIT
    /\ ncalls = 0
    /\ enc = NoEnc
    /\ dec = NoDec
    /\ proc = ProcRunning
    /\ loop = LoopIdle
    /\ remap = RemapIdle

(***************************************************************************)
(* A call of encode.  The file it writes replaces disk.                    *)
(***************************************************************************)
EncodeEffect(img, bitmap_arg, r) ==
    /\ BITMAP_HEADER' = r.bmp
    /\ CKT_HEADER' = r.ckt
    /\ ncalls' = ncalls + 1
    /\ disk' = IF r.written THEN r.bytes ELSE disk
    /\ enc' = [called |-> TRUE, first |-> ncalls = 0, bitmap_arg |-> bitmap_arg,
               ret |-> r.ret, written |-> r.written, img |-> img]
    /\ dec' = NoDec

Encode(img, bitmap_arg) ==
    /\ proc.status = "running"
    /\ ncalls < MaxCalls
    /\ \E r \in {encode(img, bitmap_arg, BITMAP_HEADER, CKT_HEADER)} :
           EncodeEffect(img, bitmap_arg, r)
    /\ UNCHANGED <<proc, loop, remap>>

(***************************************************************************)
(* A call of decode on the file on disk.  The answer is kept only if       *)
(* decode asked for it.                                                    *)
(***************************************************************************)
DecodeCall(reverse_arg, answer, r) ==
    [called |-> TRUE, reverse_arg |-> reverse_arg,
     answer |-> IF r.asked THEN answer ELSE <<>>, res |-> r]

Decode(reverse_arg) ==
    /\ proc.status = "running"
    /\ disk # <<>>
    /\ \E answer \in AnswersFor(disk, Len(BITMAP_HEADER), Len(CKT_HEADER)) :
       \E r \in {decode(disk, reverse_arg, answer, Len(BITMAP_HEADER), Len(CKT_HEADER))} :
           dec' = DecodeCall(reverse_arg, answer, r)
    /\ UNCHANGED <<BITMAP_HEADER, CKT_HEADER, ncalls, disk, enc, proc, loop, remap>>

(***************************************************************************)
(* The script run: `if __name__ == '__main__': main(argv)` in a process    *)
(* that has done nothing else, with DEBUG = False.  The value main returns *)
(* is dropped; the process ends with status 0 unless an exception escapes  *)
(* (status 1).  usage_ok says whether lib/usage.txt can be read.           *)
(***************************************************************************)
ScriptArgs ==
    { <<"cktimg.py">>,
      <<"cktimg.py", "encode", "in.png", "out">>,
      <<"cktimg.py", "decode", "img.kis", "out", "true", "extra">>,
      <<"cktimg.py", "bogus", "in.png", "out", "true">>,
      <<"cktimg.py", "encode", "nofile", "out", "false">>,
      <<"cktimg.py", "decode", "nofile", "out", "true">>,
      <<"cktimg.py", "encode", "in.png", "out", "TRUE">>,
      <<"cktimg.py", "decode", "img.kis", "out", "yes">> } \cup
    { <<"cktimg.py", "encode", "in.png", "out", f>> : f \in {"true", "false"} } \cup
    { <<"cktimg.py", "decode", "img.kis", "out", f>> : f \in {"true", "false"} }

IsFile == {"in.png"} \cup (IF disk # <<>> THEN {"img.kis"} ELSE {})

Exited(args, error, main_ret, fn_ret, usage_ok, exit_status) ==
    [status |-> "exited", exit_status |-> exit_status, args |-> args, error |-> error,
     main_ret |-> main_ret, fn_ret |-> fn_ret, usage_ok |-> usage_ok]

\* main: validation failed -> print_usage(error); return 1
ScriptInvalid(args, usage_ok) ==
    /\ proc.status = "running"
    /\ \E error \in {validate_arguments(args, IsFile)} :
        /\ error # "False"
        /\ proc' = IF usage_ok
                   THEN Exited(args, error, "1", "None", TRUE, 0)
                   ELSE Exited(args, error, "raised", "None", FALSE, 1)
    /\ UNCHANGED <<BITMAP_HEADER, CKT_HEADER, ncalls, disk, enc, dec, loop, remap>>

\* main -> parse_and_run -> encode
ScriptEncode(args, img) ==
    /\ proc.status = "running"
    /\ validate_arguments(args, IsFile) = "False"
    /\ args[2] = "encode"
    /\ \E r \in {encode(img, BitmapOrReverseArg(args[5]), BITMAP_HEADER, CKT_HEADER)} :
        /\ EncodeEffect(img, BitmapOrReverseArg(args[5]), r)
        /\ proc' = Exited(args, "False", "None", r.ret, TRUE, 0)
    /\ UNCHANGED <<loop, remap>>

\* main -> parse_and_run -> decode
ScriptDecode(args) ==
    /\ proc.status = "running"
    /\ validate_arguments(args, IsFile) = "False"
    /\ args[2] = "decode"
    /\ \E answer \in AnswersFor(disk, Len(BITMAP_HEADER), Len(CKT_HEADER)) :
       \E r \in {decode(disk, BitmapOrReverseArg(args[5]), answer,
                        Len(BITMAP_HEADER), Len(CKT_HEADER))} :
        /\ dec' = DecodeCall(BitmapOrReverseArg(args[5]), answer, r)
        /\ proc' = IF r.status \in {"ok", "aborted"}
                   THEN Exited(args, "False", "None", r.ret, TRUE, 0)
                   ELSE Exited(args, "False", "raised", "None", TRUE, 1)
    /\ UNCHANGED <<BITMAP_HEADER, CKT_HEADER, ncalls, disk, enc, loop, remap>>

(***************************************************************************)
(* Spec: one process in which encode and decode are called any number of   *)
(* times (MaxCalls bounds the encode calls), starting with no file.        *)
(***************************************************************************)
Init == InitProcess /\ disk = <<>>

Next ==
    \/ \E img \in EncodeImages, bitmap_arg \in BOOLEAN : Encode(img, bitmap_arg)
    \/ \E reverse_arg \in BOOLEAN : Decode(reverse_arg)

Spec == Init /\ [][Next]_vars

(***************************************************************************)
(* SpecCli: one command-line run of the script, with a file from           *)
(* InitialFiles on disk.                                                   *)
(***************************************************************************)
InitCli == InitProcess /\ disk \in InitialFiles

NextCli ==
    \/ \E args \in ScriptArgs, usage_ok \in BOOLEAN : ScriptInvalid(args, usage_ok)
    \/ \E args \in ScriptArgs, img \in ScriptImages : ScriptEncode(args, img)
    \/ \E args \in ScriptArgs : ScriptDecode(args)

SpecCli == InitCli /\ [][NextCli]_vars

(***************************************************************************)
(* SpecPlanes: the kernel loop of encode (lines 199-210), one loop         *)
(* iteration per step, on the pixel indices of an input image.             *)
(*   pc = "while" : at the test of `while len(kernels) < 24`               *)
(*   pc = "for"   : inside the for loop, about to visit list position pos  *)
(*   pc = "done"  : the while loop has ended                               *)
(***************************************************************************)
InitPlanes ==
    /\ BITMAP_HEADER = BITMAP_HEADER_INIT
    /\ CKT_HEADER = CKT_HEADER_INIT
    /\ ncalls = 0
    /\ disk = <<>>
    /\ enc = NoEnc
    /\ dec = NoDec
    /\ proc = ProcRunning
    /\ remap = RemapIdle
    /\ \E img \in RgbImages :
          loop = [pc |-> "while", rgb_indices |-> RgbIndices(img),
                  splits |-> SplitRgbIndices(RgbIndices(img)), pos |-> 0,
                  st |-> KernelLoopInit]

KernelWhile ==
    /\ loop.pc = "while"
    /\ loop' = IF Len(loop.st.kernels) < 24
               THEN [loop EXCEPT !.pc = "for", !.pos = 0]
               ELSE [loop EXCEPT !.pc = "done"]
    /\ UNCHANGED <<BITMAP_HEADER, CKT_HEADER, ncalls, disk, enc, dec, proc, remap>>

KernelFor ==
    /\ loop.pc = "for"
    /\ loop' = IF loop.pos < Len(loop.splits)
               THEN [loop EXCEPT
                       !.st = KernelBody(loop.st, loop.splits[loop.pos + 1], Len(loop.splits)),
                       !.pos = loop.pos + 1]
               ELSE [loop EXCEPT !.st.scans = loop.st.scans + 1, !.pc = "while"]
    /\ UNCHANGED <<BITMAP_HEADER, CKT_HEADER, ncalls, disk, enc, dec, proc, remap>>

NextPlanes == KernelWhile \/ KernelFor

SpecPlanes == InitPlanes /\ [][NextPlanes]_vars

(***************************************************************************)
(* SpecRemap: the reorder loop of decode (lines 389-395), one iteration    *)
(* per step, for an image of w x h pixels.  rgb[i] is the marker <<i>>, so *)
(* reordered_rgb shows which i was written where; log lists the positions  *)
(* written, in order.                                                      *)
(***************************************************************************)
InitRemap ==
    /\ BITMAP_HEADER = BITMAP_HEADER_INIT
    /\ CKT_HEADER = CKT_HEADER_INIT
    /\ ncalls = 0
    /\ disk = <<>>
    /\ enc = NoEnc
    /\ dec = NoDec
    /\ proc = ProcRunning
    /\ loop = LoopIdle
    /\ \E w \in 1..MaxRemapDim, h \in 1..MaxRemapDim :
          remap = [pc |-> "for", w |-> w, h |-> h, i |-> 0,
                   rgb |-> [k \in 1..(w * h) |-> <<k - 1>>],
                   reordered_rgb |-> [k \in 1..(w * h) |-> <<>>],
                   log |-> <<>>]

RemapFor ==
    /\ remap.pc = "for"
    /\ remap.i < Len(remap.rgb)
    /\ remap' =
          IF WritePos(remap.i, remap.w, remap.h, Len(remap.rgb)) = -1
          THEN [remap EXCEPT !.pc = "IndexError"]
          ELSE [remap EXCEPT
                  !.reordered_rgb = ReorderBody(remap.reordered_rgb, remap.rgb, remap.i,
                                                remap.w, remap.h),
                  !.log = Append(remap.log,
                                 WritePos(remap.i, remap.w, remap.h, Len(remap.rgb))),
                  !.i = remap.i + 1]
    /\ UNCHANGED <<BITMAP_HEADER, CKT_HEADER, ncalls, disk, enc, dec, proc, loop>>

RemapEnd ==
    /\ remap.pc = "for"
    /\ remap.i >= Len(remap.rgb)
    /\ remap' = [remap EXCEPT !.pc = "done"]
    /\ UNCHANGED <<BITMAP_HEADER, CKT_HEADER, ncalls, disk, enc, dec, proc, loop>>

NextRemap == RemapFor \/ RemapEnd

SpecRemap == InitRemap /\ [][NextRemap]_vars

(***************************************************************************)
(* Properties.                                                             *)
(***************************************************************************)
PixelCount(img) == img.w * img.h

\* bit e (0 = least significant) of n
Bit(n, e) == (n \div (2 ^ e)) % 2

\* the image decode saved, as [w, h, px]
Saved(img) == [w |-> img.w, h |-> img.h, px |-> img.px]

\* C1: round trip.  A decode with reverse_arg false of the file written by the
\* first encode call of the process ends normally, never enters the size-mismatch
\* path, and saves exactly the encoded image, pixel for pixel in raster order, for
\* the minimal and for the raster framing.
C1_RoundTrip ==
    (dec.called /\ enc.called /\ enc.first /\ enc.written /\ ~dec.reverse_arg)
        => /\ dec.res.status = "ok"
           /\ ~dec.res.asked
           /\ dec.res.image = Saved(enc.img)

C1_Witness ==
    /\ dec.called /\ enc.called /\ enc.first /\ enc.written /\ ~dec.reverse_arg
    /\ enc.bitmap_arg
    /\ enc.img = TestImage(2, 2, 0)
    /\ dec.res.image = Saved(TestImage(2, 2, 0))

\* C2: no state is shared between encode calls: the bytes every encode call
\* writes are the bytes the same call writes as the first call of a fresh process.
C2_NoSharedState ==
    (enc.called /\ enc.written) => disk = FreshFile(enc.img, enc.bitmap_arg)

\* C3: the reorder loop of decode writes column-major pixel k to raster position
\* y * w + x with x = k div h and y = k mod h (an index of -1 being the last
\* element), never fails, and when it ends every raster position has been written
\* exactly once.
C3_Transpose ==
    /\ remap.pc # "IndexError"
    /\ \A k \in 0..(Len(remap.log) - 1) :
          remap.log[k + 1] = (k % remap.h) * remap.w + (k \div remap.h)
    /\ remap.pc = "done" =>
          /\ Len(remap.log) = remap.w * remap.h
          /\ \A p \in 0..(remap.w * remap.h - 1) :
                /\ Cardinality({k \in 1..Len(remap.log) : remap.log[k] = p}) = 1
                /\ remap.reordered_rgb[p + 1] =
                      <<(p % remap.w) * remap.h + (p \div remap.w)>>

\* a finished run on a one-column image, whose last write goes through index -1
C3_Witness ==
    /\ remap.pc = "done"
    /\ remap.w = 1
    /\ remap.h = 3
    /\ NewIndex(2, 1, 3, 3) - 1 = -1
    /\ remap.log = <<0, 1, 2>>

\* C4: every encode call with the raster flag false writes 7 + 3*w*h bytes: 'CKT',
\* the width and the height as little-endian u16, then the packed payload.
C4_MinimalLayout ==
    (enc.called /\ enc.written /\ ~enc.bitmap_arg)
        => /\ Len(disk) = 7 + 3 * PixelCount(enc.img)
           /\ SubSeq(disk, 1, 3) = <<67, 75, 84>>
           /\ SubSeq(disk, 4, 5) = ToBytesLittle(enc.img.w, 2)
           /\ SubSeq(disk, 6, 7) = ToBytesLittle(enc.img.h, 2)
           /\ DropFirst(disk, 7) = KernelBytes(enc.img)
           /\ enc.img = BlackImage(2, 2) => disk = <<67, 75, 84, 2, 0, 2, 0>> \o Zeros(12)

\* the payload bytes as the minimal framing of a fresh process holds them
MinimalPayload(img) == DropFirst(FreshFile(img, FALSE), 7)

\* C5 (as amended): every encode call with the raster flag true writes a header of
\* 122 bytes with the width at offsets 18-19 and the height at offsets 22-23
\* (little-endian u16), then the 3*w*h payload bytes in the order of the minimal
\* framing, then `height` zero bytes: 122 + 3*w*h + h bytes in all; the header
\* written by the first encode call of a process begins with 'BM'.
C5_RasterLayout ==
    (enc.called /\ enc.written /\ enc.bitmap_arg)
        => /\ Len(disk) = 122 + 3 * PixelCount(enc.img) + enc.img.h
           /\ SubSeq(disk, 19, 20) = ToBytesLittle(enc.img.w, 2)
           /\ SubSeq(disk, 23, 24) = ToBytesLittle(enc.img.h, 2)
           /\ SubSeq(disk, 123, 122 + 3 * PixelCount(enc.img)) = MinimalPayload(enc.img)
           /\ DropFirst(disk, 122 + 3 * PixelCount(enc.img)) = Zeros(enc.img.h)
           /\ enc.first => SubSeq(disk, 1, 2) = <<66, 77>>

C5_Witness ==
    /\ enc.called /\ enc.written /\ enc.bitmap_arg /\ enc.first
    /\ enc.img = TestImage(2, 1, 0)
    /\ Len(disk) = 129

\* C5 (as stated): the header has 114 bytes and begins with 'BM' in every call.
C5_Original ==
    (enc.called /\ enc.written /\ enc.bitmap_arg)
        => /\ Len(disk) = 114 + 3 * PixelCount(enc.img) + enc.img.h
           /\ SubSeq(disk, 1, 2) = <<66, 77>>
           /\ SubSeq(disk, 19, 20) = ToBytesLittle(enc.img.w, 2)
           /\ SubSeq(disk, 23, 24) = ToBytesLittle(enc.img.h, 2)
           /\ SubSeq(disk, 115, 114 + 3 * PixelCount(enc.img)) = MinimalPayload(enc.img)
           /\ DropFirst(disk, 114 + 3 * PixelCount(enc.img)) = Zeros(enc.img.h)

\* the length decode expects of the stripped payload
Expected(res) == res.w * res.h * 3

\* decode found the stripped payload of the wrong length
Mismatch(res) == res.status # "IndexError" /\ Len(res.stripped) # Expected(res)

\* C6: when the stripped payload has the wrong length and the caller elects to
\* proceed, the payload used has exactly the expected length: a shorter payload
\* is followed by zero bytes, a longer one loses its excess from the end only.
C6_Recovery ==
    (dec.called /\ Mismatch(dec.res) /\ dec.res.status # "aborted")
        => /\ Len(dec.res.payload) = Expected(dec.res)
           /\ Len(dec.res.stripped) < Expected(dec.res) =>
                 dec.res.payload =
                     dec.res.stripped \o Zeros(Expected(dec.res) - Len(dec.res.stripped))
           /\ Len(dec.res.stripped) > Expected(dec.res) =>
                 dec.res.payload = SubSeq(dec.res.stripped, 1, Expected(dec.res))

\* a payload two bytes short, padded, and decoded to an image
C6_Witness ==
    /\ dec.called /\ Mismatch(dec.res) /\ dec.res.status = "ok"
    /\ Len(dec.res.stripped) = Expected(dec.res) - 2
    /\ dec.res.payload = dec.res.stripped \o <<0, 0>>
    /\ dec.res.stripped # Zeros(Len(dec.res.stripped))

\* an answer whose first character is 'y' or 'Y'
Affirmative(answer) == answer # <<>> /\ answer[1] \in {"y", "Y"}

\* C7: with a stripped payload of the wrong length, decode saves an image only if
\* it asked and the answer was affirmative; on any other answer, the empty one
\* included, it returns 1 and saves nothing.
C7_NoSilentProceed ==
    (dec.called /\ Mismatch(dec.res))
        => /\ dec.res.asked
           /\ dec.res.image # NoImage => Affirmative(dec.answer)
           /\ ~Affirmative(dec.answer) =>
                 /\ dec.res.status = "aborted"
                 /\ dec.res.ret = "1"
                 /\ dec.res.image = NoImage

\* an empty answer to the question: decode aborts
C7_Witness ==
    /\ dec.called /\ Mismatch(dec.res)
    /\ dec.answer = <<>>
    /\ dec.res.status = "aborted"
    /\ dec.res.image = NoImage

\* the file starts with neither 'BM' nor 'CKT'
NeitherMagic(file) == ~IsBitmap(file) /\ Slice(file, 0, 3) # <<67, 75, 84>>

\* C8 (as stated): a file that starts with neither magic makes decode abort before
\* it reads the width and height, checks the size or saves anything.
C8_Original ==
    (dec.called /\ NeitherMagic(disk))
        => /\ dec.res.status \notin {"ok", "aborted", "ValueError"}
           /\ dec.res.w = 0 /\ dec.res.h = 0
           /\ ~dec.res.asked
           /\ dec.res.image = NoImage

\* C8 (as amended): a file that does not start with 'BM' is read as the minimal
\* framing whatever its first three bytes are: the width and height come from
\* offsets 3-6, the first 7 bytes are stripped and the size check is made; if the
\* size is right the image is decoded and saved without any question.
C8_NoMagicCheck ==
    (dec.called /\ ~IsBitmap(disk) /\ Len(disk) >= 7)
        => /\ dec.res.w = disk[4] + 256 * disk[5]
           /\ dec.res.h = disk[6] + 256 * disk[7]
           /\ dec.res.stripped = DropFirst(disk, 7)
           /\ dec.res.asked = (Len(disk) - 7 # Expected(dec.res))
           /\ (Len(disk) - 7 = Expected(dec.res) /\ Expected(dec.res) > 0) =>
                 /\ dec.res.status = "ok"
                 /\ dec.res.image.w = dec.res.w
                 /\ dec.res.image.h = dec.res.h

\* a file starting with 'XYZ' decoded to an image
C8_Witness ==
    /\ dec.called
    /\ NeitherMagic(disk)
    /\ SubSeq(disk, 1, 3) = <<88, 89, 90>>
    /\ dec.res.status = "ok"
    /\ ~dec.res.asked
    /\ dec.res.image.px # <<>>

\* C9: the run ends with status 1 whenever a validation error or a format error
\* (encode or decode returning 1) occurred, and with status 0 when nothing failed.
C9_ExitStatus ==
    proc.status = "exited"
        => /\ (proc.error # "False" \/ proc.fn_ret = "1") => proc.exit_status = 1
           /\ (proc.error = "False" /\ proc.fn_ret # "1" /\ proc.main_ret # "raised")
                 => proc.exit_status = 0

\* C10: the kernel loop ends after exactly 24 passes over the pixel list with 24
\* kernels of w*h bits each, kernel b holding bit 23-b of every pixel index in
\* list order; the kernels are joined in the order b = 0..23.
C10_BitPlanes ==
    LET n == Len(loop.rgb_indices)
        kernels == loop.st.kernels
    IN  /\ loop.st.scans <= 24
        /\ loop.pc = "while" => Len(kernels) = loop.st.scans
        /\ \A b \in 0..(Len(kernels) - 1) :
              /\ Len(kernels[b + 1]) = n
              /\ \A k \in 0..(n - 1) :
                    kernels[b + 1][k + 1] = Bit(loop.rgb_indices[k + 1], 23 - b)
        /\ loop.pc = "done" =>
              /\ loop.st.scans = 24
              /\ Len(kernels) = 24
              /\ loop.st = BuildKernels(loop.splits)
              /\ Len(Flatten(kernels)) = 24 * n
              /\ \A b \in 0..23 : \A k \in 0..(n - 1) :
                    Flatten(kernels)[b * n + k + 1] = Bit(loop.rgb_indices[k + 1], 23 - b)

\* the loop has ended on a four-pixel image whose pixels all differ
C10_Witness ==
    /\ loop.pc = "done"
    /\ loop.rgb_indices = RgbIndices(TestImage(2, 2, 0))
    /\ loop.st.scans = 24
    /\ Len(loop.st.kernels) = 24

====
